---- MODULE Spec2Model ----
(***************************************************************************)
(* Marketplace server: the MarketManager (src/src/core/Market) and the     *)
(* Server handlers that drive it (src/src/core/Server/server.py).          *)
(*                                                                         *)
(* Quantities are whole units (the code uses floats; 5.0 is 5 units).      *)
(* A thread is a pair: <<"caller", i>> is a thread calling the             *)
(* MarketManager's public methods, <<"session", i>> is the Server worker   *)
(* running handle_client for connection i, <<"timer", id>> is the          *)
(* threading.Timer thread of sale id.                                      *)
(*                                                                         *)
(* Spec drives the MarketManager through its public methods with arguments *)
(* drawn from small sets; SpecServer drives it through the Server's        *)
(* sessions and handlers.                                                  *)
(*                                                                         *)
(* market_manager.py line 240 evaluates the global name threading, while   *)
(* line 3 binds only Lock and Timer in the module.  In the module as it    *)
(* stands that lookup raises NameError, which aborts every start_sale.     *)
(* threading_bound records whether the name resolves; both runs are part   *)
(* of the model, so that the sale lifecycle is checked as well as the      *)
(* module as it stands.                                                    *)
(***************************************************************************)
EXTENDS Integers, FiniteSets, Sequences, TLC

MaxSellers == 1
MaxCallers == 2
MaxSales == 2
MaxQty == 3
MaxTypes == 2
MaxSessions == 3
MaxCloses == 1
MaxSessionSales == 1
MaxSlices == 2
MaxInFlight == 2
MaxKeys == 1
MaxItems == 1
MaxEvents == 4
MaxTime == 3
SmallCap == 2
INITIAL_QUANTITY == 5
DEFAULT_MAX_CLIENTS == 200
MAX_RETRY_ATTEMPTS == 3

ItemType == <<"flower", "sugar", "potato", "oil">>
ItemTypes == {ItemType[i] : i \in 1..Len(ItemType)}
\* the item types a caller puts on sale
SaleTypes == {ItemType[i] : i \in 1..MaxTypes}

SellerIds == {<<"seller", n>> : n \in 0..(MaxSellers - 1)}
ItemIds == 1..MaxSales
Callers == {<<"caller", i>> : i \in 1..MaxCallers}
Sessions == {<<"session", i>> : i \in 1..MaxSessions}
Threads == Callers \cup Sessions
\* ClientType: the role a REGISTER message carries
ClientType == {"buyer", "seller"}
NoClient == <<"none", 0>>
TimerThread(id) == <<"timer", id>>
NoThread == <<"none", 0>>

\* quantities a caller may pass to start_sale and to try_purchase
SaleQuantities == {-1, MaxQty, INITIAL_QUANTITY + 1}
PurchaseQuantities == {0, MaxQty - 1}

VARIABLES
    threading_bound,        \* the name threading resolves in market_manager
    seller_stocks,          \* MarketManager.seller_stocks: seller -> type -> ItemStock
    item_obj,               \* the MarketItem objects ever created, by item id
    active_items,           \* keys of MarketManager.active_items
    item_rotation_timers,   \* keys of MarketManager.item_rotation_timers
    timer_state,            \* state of each sale's Timer thread
    sale_history,           \* MarketManager.sale_history: seller -> item ids
    mm_lock,                \* holder of MarketManager._lock
    pc,                     \* position of each caller thread
    local,                  \* locals of a caller inside try_purchase
    sold,                   \* history: sum of the accepted purchases per item
    last,                   \* history: the MarketManager operation that acted last
    clients,                \* Server.clients: node id -> ClientInfo
    active_client,          \* Server.active_client: the accepted sockets
    next_node_id,           \* Server.next_node_id
    thread_lock,            \* holder of Server.thread_lock
    client_id,              \* handle_client's local client_id, per session
    reply,                  \* the direct reply last written to a session's socket
    notified,               \* purchase notifications written to a session's socket
    peer_closed,            \* sessions whose client has closed the connection
    listed,                 \* the list the last get_active_items call returned
    max_clients,            \* Server.max_clients
    is_running,             \* Server.is_running
    stop_pc,                \* position of the thread that calls stop_server
    to_clean,               \* stop_server: sockets of its loop still to clean up
    accepting,              \* the accept_connections loop has not exited
    closed_by_server,       \* sessions whose socket cleanup_client has closed
    response_received,      \* Client.response_received: the Event is set
    last_response,          \* Client.last_response
    wait_pc,                \* position of the client thread that sends and waits
    remaining_time,         \* wait_for_response: polling slices left
    rx_pc,                  \* position of the client's handle_messages thread
    arrived,                \* history: a reply was stored and signalled since the send
    in_flight,              \* replies the server has still to deliver
    client_class,           \* the class of the client object
    client_socket,          \* Client.socket
    connected,              \* Client.connected
    client_is_running,      \* Client.is_running
    client_node_id,         \* Client.node_id
    registered,             \* BuyerClient.registered / SellerClient.registered
    raised,                 \* the exception the client's last call raised
    attempts,               \* send_message: its local attempts
    writes,                 \* history: write attempts of the last send_message
    reg_pc,                 \* the client's register call: none, active, ok, failed
    registration_event,     \* registration_event: the Event is set
    codec_msg,              \* the Message handed to MessageEncoder.serialize
    wire,                   \* the JSON document serialize produced
    decoded,                \* the Message deserialize returned
    queue,                  \* EventQueue.queue
    enqueued,               \* history: the events enqueued so far
    dequeued,               \* history: the events dequeue returned, in order
    mixed                   \* history: a dequeue came before an enqueue

marketVars == <<threading_bound, seller_stocks, item_obj, active_items,
                item_rotation_timers, timer_state, sale_history, sold, last>>
serverVars == <<clients, active_client, next_node_id, thread_lock, client_id,
                reply, notified, peer_closed>>
stopVars == <<is_running, stop_pc, to_clean, accepting, closed_by_server>>
\* Client.__init__ and connect: what the spec calls the runtime state
runtime == <<client_socket, connected, client_is_running, client_node_id>>
clientVars == <<response_received, last_response, wait_pc, remaining_time,
                rx_pc, arrived, in_flight, client_class, runtime, registered,
                raised, attempts, writes, reg_pc, registration_event>>
\* the variables of the server process
serverProcessVars == <<marketVars, mm_lock, pc, local, serverVars, listed,
                       max_clients, stopVars>>
\* the variables of the components that run outside the server process
codecVars == <<codec_msg, wire, decoded>>
queueVars == <<queue, enqueued, dequeued, mixed>>
componentVars == <<clientVars, codecVars, queueVars>>
\* what a step of the client leaves alone
outsideClient == <<serverProcessVars, codecVars, queueVars>>
extVars == <<listed, max_clients, stopVars, componentVars>>
vars == <<marketVars, mm_lock, pc, local, serverVars, extVars>>

NoLocal == [item |-> 0, q |-> 0, read |-> 0, ret |-> "none"]
NoOp == [op |-> "none", item |-> 0, result |-> "none"]

Done(op, id, res) == [op |-> op, item |-> id, result |-> res]

----
\* ItemStock(item_type, quantity, max_quantity)
NewStock(q) == [quantity |-> q, max_quantity |-> q]

\* MarketItem.__init__
NewItem(ty, q, s) == [item_type |-> ty, quantity |-> q, seller_id |-> s, created |-> q]

\* threading.Lock: acquire succeeds only when nobody holds it, the holder included
BrokenLockFree == TRUE
LockFree == mm_lock = NoThread

\* [item for item in active_items.values() if item.seller_id == seller_id]
NoExistingItems(s) == {}
ExistingItems(s) == {id \in active_items : item_obj[id].seller_id = s}

\* item_id = f"item_{seller_id}_{time.time()}": a fresh id per sale
NextItemId == Cardinality(DOMAIN item_obj) + 1

\* the first item type, in enum order, whose stock is positive (0 if none)
FirstWithStock(stocks) ==
    LET idx == {i \in 1..Len(ItemType) : stocks[ItemType[i]].quantity > 0}
    IN  IF idx = {} THEN 0 ELSE CHOOSE i \in idx : \A j \in idx : i <= j

\* stock.quantity += q
AddStock(stocks, s, ty, q) ==
    [stocks EXCEPT ![s][ty].quantity = @ + q]

\* the classes of client the repository defines on Client
ClientClasses == {"BuyerClient", "SellerClient"}

\* the state after MarketManager(), Server() and start_server(), max_clients
\* being cap, and after a client of class cls was built and has connected
ConstructedAs(cap, cls) ==
    /\ threading_bound \in BOOLEAN
    /\ client_class = cls
    /\ client_socket = "open"
    /\ connected = TRUE
    /\ client_is_running = TRUE
    /\ client_node_id = "None"
    /\ registered = FALSE
    /\ raised = "none"
    /\ attempts = 0
    /\ writes = 0
    /\ reg_pc = "none"
    /\ registration_event = FALSE
    /\ seller_stocks = <<>>
    /\ item_obj = <<>>
    /\ active_items = {}
    /\ item_rotation_timers = {}
    /\ timer_state = <<>>
    /\ sale_history = <<>>
    /\ mm_lock = NoThread
    /\ pc = [t \in Threads |-> IF t \in Callers THEN "idle" ELSE "new"]
    /\ local = [t \in Threads |-> NoLocal]
    /\ sold = <<>>
    /\ last = NoOp
    /\ clients = <<>>
    /\ active_client = {}
    /\ next_node_id = 0
    /\ thread_lock = NoThread
    /\ client_id = [t \in Sessions |-> NoClient]
    /\ reply = [t \in Sessions |-> "none"]
    /\ notified = [t \in Sessions |-> 0]
    /\ peer_closed = {}
    /\ listed = {}
    /\ max_clients = cap
    /\ is_running = TRUE
    /\ stop_pc = "idle"
    /\ to_clean = {}
    /\ accepting = TRUE
    /\ closed_by_server = {}
    /\ response_received = FALSE
    /\ last_response = "None"
    /\ wait_pc = "idle"
    /\ remaining_time = 0
    /\ rx_pc = "recv"
    /\ arrived = FALSE
    /\ in_flight = <<>>

\* no Message has been handed to the encoder
NoMessage == [type |-> "none", data |-> <<>>, sender_id |-> <<"None", "">>]
NoWire == [type |-> "none", data |-> <<>>, sender_id |-> <<"null", "">>]

CodecIdle ==
    /\ codec_msg = NoMessage
    /\ wire = NoWire
    /\ decoded = NoMessage

\* EventQueue.__init__ (lines 5-6)
EmptyQueue ==
    /\ queue = <<>>
    /\ enqueued = <<>>
    /\ dequeued = <<>>
    /\ mixed = FALSE

Constructed(cap) ==
    /\ ConstructedAs(cap, "BuyerClient")
    /\ CodecIdle
    /\ EmptyQueue

Init == Constructed(DEFAULT_MAX_CLIENTS)

InitClient ==
    /\ \E cls \in ClientClasses : ConstructedAs(DEFAULT_MAX_CLIENTS, cls)
    /\ CodecIdle
    /\ EmptyQueue

----
\* MarketManager.initialize_seller_stock (lines 19-28)
initialize_seller_stock(s) ==
    /\ seller_stocks' =
         [x \in (DOMAIN seller_stocks) \cup {s} |->
            IF x = s THEN [ty \in ItemTypes |-> NewStock(INITIAL_QUANTITY)]
                     ELSE seller_stocks[x]]
    /\ last' = Done("initialize_seller_stock", 0, "ok")
    /\ UNCHANGED <<threading_bound, item_obj, active_items, item_rotation_timers,
                   timer_state, sale_history, sold>>

\* MarketManager.start_sale (lines 50-85), with _start_sale_timer (lines
\* 225-243: the second definition, which replaces the first in the class body)
start_sale(s, ty, q) ==
    /\ LET id == NextItemId IN
       IF s \notin DOMAIN seller_stocks
       THEN /\ last' = Done("start_sale", 0, "NotFound")
            /\ UNCHANGED <<item_obj, active_items, item_rotation_timers,
                           timer_state, sold>>
       ELSE IF ExistingItems(s) # {}
       THEN /\ last' = Done("start_sale", 0, "AlreadyActive")
            /\ UNCHANGED <<item_obj, active_items, item_rotation_timers,
                           timer_state, sold>>
       ELSE IF ~threading_bound
       THEN /\ last' = Done("start_sale", 0, "NameError")
            /\ UNCHANGED <<item_obj, active_items, item_rotation_timers,
                           timer_state, sold>>
       ELSE /\ id <= MaxSales
            /\ item_obj' = item_obj @@ (id :> NewItem(ty, q, s))
            /\ item_rotation_timers' = item_rotation_timers \cup {id}
            /\ timer_state' = timer_state @@ (id :> "pending")
            /\ active_items' = active_items \cup {id}
            /\ sold' = sold @@ (id :> 0)
            /\ last' = Done("start_sale", id, "ok")
    /\ UNCHANGED <<threading_bound, seller_stocks, sale_history>>

\* MarketManager._start_next_item, called with the manager lock held: the
\* nested start_sale acquires the lock again and never returns
StartNextItem(stocks, s) ==
    IF s \notin DOMAIN stocks THEN "None"
    ELSE IF FirstWithStock(stocks[s]) # 0 THEN "blocked" ELSE "None"

\* Timer.cancel(): stops a timer that has not fired yet
Cancel(ts, id) ==
    IF ts[id] = "pending" THEN [ts EXCEPT ![id] = "cancelled"] ELSE ts

\* end_sale, line 90: `item_id not in self.active_items`
EverCreated(id) == id \in DOMAIN item_obj
EndSaleKnown(id) == id \in active_items

\* MarketManager.end_sale (lines 87-112), called by thread t
end_sale(t, id, auto_rotate) ==
    /\ IF ~EndSaleKnown(id)
       THEN /\ last' = Done("end_sale", id, "None")
            /\ UNCHANGED <<seller_stocks, active_items, item_rotation_timers,
                           timer_state, mm_lock>>
       ELSE LET item == item_obj[id]
                stocks == IF item.quantity > 0
                          THEN AddStock(seller_stocks, item.seller_id,
                                        item.item_type, item.quantity)
                          ELSE seller_stocks
                next == IF auto_rotate THEN StartNextItem(stocks, item.seller_id)
                                       ELSE "None"
            IN  /\ seller_stocks' = stocks
                /\ active_items' = active_items \ {id}
                /\ item_rotation_timers' = item_rotation_timers \ {id}
                /\ timer_state' = IF id \in item_rotation_timers
                                  THEN Cancel(timer_state, id) ELSE timer_state
                /\ IF next = "blocked"
                   THEN /\ mm_lock' = t
                        /\ last' = Done("end_sale", id, "blocked")
                   ELSE /\ last' = Done("end_sale", id, "ended")
                        /\ UNCHANGED mm_lock
    /\ UNCHANGED <<threading_bound, item_obj, sale_history, sold>>

\* where a thread goes on when its try_purchase call returns
AfterTryPurchase(t) == IF t \in Callers THEN "idle" ELSE "buy_ret"

\* what a thread keeps of a try_purchase call that returned: a session keeps
\* the outcome for handle_buy_request, and the amount when the call was decided
\* on the item's quantity
Returned(t, id, q, ret) ==
    IF t \in Callers THEN NoLocal
    ELSE IF ret \in {"True", "False"}
    THEN [item |-> id, q |-> q, read |-> 0, ret |-> ret]
    ELSE [item |-> 0, q |-> 0, read |-> 0, ret |-> ret]

\* MarketManager.try_purchase, lines 116-125: acquire the lock, look the item
\* up, validate the amount, compare it with item.quantity
try_purchase(t, id, q) ==
    /\ LockFree
    /\ IF id \notin active_items
       THEN /\ last' = Done("try_purchase", id, "NotFound")
            /\ pc' = [pc EXCEPT ![t] = AfterTryPurchase(t)]
            /\ local' = [local EXCEPT ![t] = Returned(t, id, q, "NotFound")]
            /\ UNCHANGED mm_lock
       ELSE IF q <= 0
       THEN /\ last' = Done("try_purchase", id, "InvalidArgument")
            /\ pc' = [pc EXCEPT ![t] = AfterTryPurchase(t)]
            /\ local' = [local EXCEPT ![t] = Returned(t, id, q, "InvalidArgument")]
            /\ UNCHANGED mm_lock
       ELSE IF item_obj[id].quantity >= q
       THEN /\ mm_lock' = t
            /\ pc' = [pc EXCEPT ![t] = "tp_load"]
            /\ local' = [local EXCEPT ![t] = [item |-> id, q |-> q, read |-> 0,
                                              ret |-> "none"]]
            /\ UNCHANGED last
       ELSE /\ last' = Done("try_purchase", id, "False")
            /\ pc' = [pc EXCEPT ![t] = AfterTryPurchase(t)]
            /\ local' = [local EXCEPT ![t] = Returned(t, id, q, "False")]
            /\ UNCHANGED mm_lock
    /\ UNCHANGED <<threading_bound, seller_stocks, item_obj, active_items,
                   item_rotation_timers, timer_state, sale_history, sold>>

\* line 126, item.quantity -= quantity: the read of item.quantity
TryPurchaseLoad(t) ==
    /\ pc[t] = "tp_load"
    /\ local' = [local EXCEPT ![t].read = item_obj[local[t].item].quantity]
    /\ pc' = [pc EXCEPT ![t] = "tp_store"]
    /\ UNCHANGED <<marketVars, mm_lock, serverVars>>
    /\ UNCHANGED extVars

\* line 126, the write of item.quantity; line 127, return True (lock released)
TryPurchaseStore(t) ==
    /\ pc[t] = "tp_store"
    /\ LET id == local[t].item
           q == local[t].q
       IN  /\ item_obj' = [item_obj EXCEPT ![id].quantity = local[t].read - q]
           /\ sold' = [sold EXCEPT ![id] = @ + q]
           /\ last' = Done("try_purchase", id, "True")
           /\ local' = [local EXCEPT ![t] = Returned(t, id, q, "True")]
    /\ mm_lock' = NoThread
    /\ pc' = [pc EXCEPT ![t] = AfterTryPurchase(t)]
    /\ UNCHANGED <<threading_bound, seller_stocks, active_items,
                   item_rotation_timers, timer_state, sale_history, serverVars>>
    /\ UNCHANGED extVars

----
\* a thread that is not the Server calls the MarketManager's public methods
CallInitializeSellerStock(t, s) ==
    /\ pc[t] = "idle"
    /\ LockFree
    /\ initialize_seller_stock(s)
    /\ UNCHANGED <<mm_lock, pc, local, serverVars>>
    /\ UNCHANGED extVars

CallStartSale(t, s, ty, q) ==
    /\ pc[t] = "idle"
    /\ LockFree
    /\ start_sale(s, ty, q)
    /\ UNCHANGED <<mm_lock, pc, local, serverVars>>
    /\ UNCHANGED extVars

CallEndSale(t, id, auto_rotate) ==
    /\ pc[t] = "idle"
    /\ LockFree
    /\ end_sale(t, id, auto_rotate)
    /\ pc' = [pc EXCEPT ![t] = IF last'.result = "blocked" THEN "blocked" ELSE "idle"]
    /\ UNCHANGED <<local, serverVars>>
    /\ UNCHANGED extVars

CallTryPurchase(t, id, q) ==
    /\ pc[t] = "idle"
    /\ try_purchase(t, id, q)
    /\ UNCHANGED serverVars
    /\ UNCHANGED extVars

\* MarketManager.get_seller_stock (lines 163-172)
CallGetSellerStock(t, s) ==
    /\ pc[t] = "idle"
    /\ LockFree
    /\ last' = Done("get_seller_stock", 0,
                    IF s \in DOMAIN seller_stocks THEN "ok" ELSE "NotFound")
    /\ UNCHANGED <<threading_bound, seller_stocks, item_obj, active_items,
                   item_rotation_timers, timer_state, sale_history, sold,
                   mm_lock, pc, local, serverVars>>
    /\ UNCHANGED extVars

\* MarketItem.is_expired: more than max_sale_duration has passed since the sale
\* started, which is the case once the sale's timer has fired
is_expired(id) == timer_state[id] \in {"fired", "rotate", "blocked", "done"}

\* MarketManager.get_active_items (lines 131-134): list(self.active_items.values())
get_active_items == active_items

CallGetActiveItems(t) ==
    /\ pc[t] = "idle"
    /\ LockFree
    /\ listed' = get_active_items
    /\ last' = Done("get_active_items", 0, "ok")
    /\ UNCHANGED <<threading_bound, seller_stocks, item_obj, active_items,
                   item_rotation_timers, timer_state, sale_history, sold,
                   mm_lock, pc, local, serverVars, max_clients, stopVars,
                   componentVars>>

----
\* threading.Timer: max_sale_duration has elapsed and the timer was not cancelled
TimerFire(id) ==
    /\ id \in DOMAIN timer_state
    /\ timer_state[id] = "pending"
    /\ timer_state' = [timer_state EXCEPT ![id] = "fired"]
    /\ last' = Done("timer_fire", id, "ok")
    /\ UNCHANGED <<threading_bound, seller_stocks, item_obj, active_items,
                   item_rotation_timers, sale_history, sold, mm_lock, pc, local,
                   serverVars>>
    /\ UNCHANGED extVars

\* sale_history[seller_id].append(item)
AppendHistory(h, s, id) ==
    IF s \in DOMAIN h THEN [h EXCEPT ![s] = Append(@, id)] ELSE h @@ (s :> <<id>>)

\* timer_callback, first call: MarketManager.handle_unsold_items(item), on the
\* MarketItem object the callback closed over
HandleUnsoldItems(id) ==
    /\ id \in DOMAIN timer_state
    /\ timer_state[id] = "fired"
    /\ LockFree
    /\ LET item == item_obj[id] IN
       /\ IF item.quantity > 0
          THEN /\ seller_stocks' = AddStock(seller_stocks, item.seller_id,
                                            item.item_type, item.quantity)
               /\ sale_history' = AppendHistory(sale_history, item.seller_id, id)
          ELSE UNCHANGED <<seller_stocks, sale_history>>
       /\ last' = Done("handle_unsold_items", id, "ok")
    /\ timer_state' = [timer_state EXCEPT ![id] = "rotate"]
    /\ UNCHANGED <<threading_bound, item_obj, active_items, item_rotation_timers,
                   sold, mm_lock, pc, local, serverVars>>
    /\ UNCHANGED extVars

\* timer_callback, second call: MarketManager.rotate_seller_items(seller_id).
\* active_items is keyed by item id, so `seller_id in self.active_items` is
\* false and current_type stays None; the first type with stock is put on sale
\* by a nested start_sale, which waits for the lock this thread holds.
RotateSellerItems(id) ==
    /\ id \in DOMAIN timer_state
    /\ timer_state[id] = "rotate"
    /\ LockFree
    /\ LET s == item_obj[id].seller_id
           blocks == s \in DOMAIN seller_stocks /\ FirstWithStock(seller_stocks[s]) # 0
       IN  /\ timer_state' = [timer_state EXCEPT ![id] = IF blocks THEN "blocked" ELSE "done"]
           /\ mm_lock' = IF blocks THEN TimerThread(id) ELSE mm_lock
           /\ last' = Done("rotate_seller_items", id, IF blocks THEN "blocked" ELSE "None")
    /\ UNCHANGED <<threading_bound, seller_stocks, item_obj, active_items,
                   item_rotation_timers, sale_history, sold, pc, local, serverVars>>
    /\ UNCHANGED extVars

----
Next ==
    \/ \E t \in Callers, s \in SellerIds : CallInitializeSellerStock(t, s)
    \/ \E t \in Callers, s \in SellerIds, ty \in SaleTypes, q \in SaleQuantities :
          CallStartSale(t, s, ty, q)
    \/ \E t \in Callers, id \in ItemIds, r \in BOOLEAN : CallEndSale(t, id, r)
    \/ \E t \in Callers, id \in ItemIds, q \in PurchaseQuantities :
          CallTryPurchase(t, id, q)
    \/ \E t \in Callers : TryPurchaseLoad(t)
    \/ \E t \in Callers : TryPurchaseStore(t)
    \/ \E t \in Callers, s \in SellerIds : CallGetSellerStock(t, s)
    \/ \E id \in ItemIds : TimerFire(id)
    \/ \E id \in ItemIds : HandleUnsoldItems(id)
    \/ \E id \in ItemIds : RotateSellerItems(id)

Spec == Init /\ [][Next]_vars

\* the same callers, which also call get_active_items; the call changes nothing
\* in the manager, so it is left out of Next and the list it returned is
\* recorded only here
NextListing == Next \/ \E t \in Callers : CallGetActiveItems(t)

SpecListing == Init /\ [][NextListing]_vars

----
\* ClientInfo(socket, address, client_type, state=REGISTERED, node_id)
ClientInfo(t, role) == [socket |-> t, client_type |-> role, state |-> "registered"]

\* the role of a registered session
RoleOf(t) == IF client_id[t] = NoClient THEN "none" ELSE clients[client_id[t]].client_type

\* a registered session whose worker is about to read the next message
Ready(t, role) ==
    /\ pc[t] = "idle"
    /\ t \notin peer_closed
    /\ client_id[t] \in DOMAIN clients
    /\ RoleOf(t) = role

\* accept_connections, line 110: len(self.active_client) >= self.max_clients
NeverAtCap == FALSE
AtCap == Cardinality(active_client) >= max_clients

\* ThreadPoolExecutor.submit raises RuntimeError once shutdown() was called
PoolIsShutDown == stop_pc \in {"wait", "done"}

\* Server.accept_connections (lines 106-123), for the connection of session t;
\* the accept loop is one thread, and sessions are numbered in accept order.
\* The loop tests is_running only before it waits in accept(); a connection
\* whose submit raises stays in active_client with its socket open and without
\* a worker.
AcceptConnection(t) ==
    /\ accepting /\ stop_pc # "done"
    /\ pc[t] = "new"
    /\ \A u \in Sessions : u[2] < t[2] => pc[u] # "new"
    /\ IF AtCap
       THEN /\ pc' = [pc EXCEPT ![t] = "closed"]
            /\ UNCHANGED active_client
       ELSE /\ thread_lock = NoThread
            /\ active_client' = active_client \cup {t}
            /\ pc' = [pc EXCEPT ![t] = IF PoolIsShutDown THEN "orphan"
                                                        ELSE "wait_register"]
    /\ accepting' = is_running
    /\ UNCHANGED <<marketVars, mm_lock, local, clients, next_node_id, thread_lock,
                   client_id, reply, notified, peer_closed>>
    /\ UNCHANGED <<listed, max_clients, is_running, stop_pc, to_clean,
                   closed_by_server,
                   componentVars>>

\* accept_connections, line 107: the loop finds is_running false and exits
AcceptLoopExit ==
    /\ accepting /\ ~is_running
    /\ accepting' = FALSE
    /\ UNCHANGED <<marketVars, mm_lock, pc, local, serverVars, listed,
                   max_clients, is_running, stop_pc, to_clean, closed_by_server,
                   componentVars>>

\* register_client, line 136: self.next_node_id += 1
SameNodeId(n) == n
NextNodeId(n) == n + 1

\* Server.handle_client (lines 176-195) on a first message REGISTER, with
\* Server.register_client (lines 125-166).  A seller's stock is initialized
\* while the registry lock is held; if the manager lock is taken the worker
\* waits for it there.
HandleRegister(t, role) ==
    /\ pc[t] = "wait_register"
    /\ t \notin peer_closed
    /\ thread_lock = NoThread
    /\ LET node_id == <<role, next_node_id>> IN
       /\ next_node_id' = NextNodeId(next_node_id)
       /\ clients' = clients @@ (node_id :> ClientInfo(t, role))
       /\ client_id' = [client_id EXCEPT ![t] = node_id]
       /\ IF role = "seller" /\ ~LockFree
          THEN /\ thread_lock' = t
               /\ pc' = [pc EXCEPT ![t] = "reg_wait_mm"]
               /\ UNCHANGED <<marketVars, reply>>
          ELSE /\ IF role = "seller" THEN initialize_seller_stock(node_id)
                                     ELSE UNCHANGED marketVars
               /\ reply' = [reply EXCEPT ![t] = "ACK"]
               /\ pc' = [pc EXCEPT ![t] = "idle"]
               /\ UNCHANGED thread_lock
    /\ UNCHANGED <<mm_lock, local, active_client, notified, peer_closed>>
    /\ UNCHANGED extVars

\* register_client, lines 151-162, once the manager lock is free; then the ACK
RegisterInitStock(t) ==
    /\ pc[t] = "reg_wait_mm"
    /\ LockFree
    /\ initialize_seller_stock(client_id[t])
    /\ thread_lock' = NoThread
    /\ reply' = [reply EXCEPT ![t] = "ACK"]
    /\ pc' = [pc EXCEPT ![t] = "idle"]
    /\ UNCHANGED <<mm_lock, local, clients, active_client, next_node_id,
                   client_id, notified, peer_closed>>
    /\ UNCHANGED extVars

\* a drop that writes an ERROR to the socket first
FirstMessageAnswered(t) ==
    /\ pc[t] = "wait_register"
    /\ t \notin peer_closed
    /\ reply' = [reply EXCEPT ![t] = "ERROR"]
    /\ pc' = [pc EXCEPT ![t] = "closed"]
    /\ UNCHANGED <<marketVars, mm_lock, local, clients, active_client,
                   next_node_id, thread_lock, client_id, notified, peer_closed,
                   extVars>>

\* handle_client, lines 196-197 and 209-217: the first message is not REGISTER
FirstMessageNotRegister(t) ==
    /\ pc[t] = "wait_register"
    /\ t \notin peer_closed
    /\ pc' = [pc EXCEPT ![t] = "closed"]
    /\ UNCHANGED <<marketVars, mm_lock, local, serverVars>>
    /\ UNCHANGED extVars

\* the client of session t closes its end of the connection
PeerClose(t) ==
    /\ pc[t] \in {"wait_register", "idle", "blocked"}
    /\ t \notin peer_closed
    /\ Cardinality(peer_closed) < MaxCloses
    /\ peer_closed' = peer_closed \cup {t}
    /\ UNCHANGED <<marketVars, mm_lock, pc, local, clients, active_client,
                   next_node_id, thread_lock, client_id, reply, notified>>
    /\ UNCHANGED extVars

\* the seller of session t closes its end of the connection after its
\* SALE_START was read and before the server has written the confirmation
PeerCloseAfterRequest(t) ==
    /\ pc[t] = "sale_reply"
    /\ t \notin peer_closed
    /\ Cardinality(peer_closed) < MaxCloses
    /\ peer_closed' = peer_closed \cup {t}
    /\ UNCHANGED <<marketVars, mm_lock, pc, local, clients, active_client,
                   next_node_id, thread_lock, client_id, reply, notified>>
    /\ UNCHANGED extVars

\* remove_client, lines 223-228, for a client_id that is in self.clients:
\* set.remove raises KeyError when the socket is not in active_client, and the
\* del of the ClientInfo is skipped
RemoveClientInfo(n) ==
    IF clients[n].socket \in active_client
    THEN /\ active_client' = active_client \ {clients[n].socket}
         /\ clients' = [m \in (DOMAIN clients) \ {n} |-> clients[m]]
    ELSE UNCHANGED <<clients, active_client>>

\* handle_client, lines 177 and 209-217, with Server.remove_client (lines
\* 219-230): receive_message raises on a connection that the peer or
\* cleanup_client has closed, or the loop finds is_running false
SessionExit(t) ==
    /\ pc[t] \in {"wait_register", "idle"}
    /\ t \in peer_closed \/ t \in closed_by_server \/ ~is_running
    /\ IF client_id[t] = NoClient
       THEN UNCHANGED <<clients, active_client>>
       ELSE /\ thread_lock = NoThread
            /\ IF client_id[t] \in DOMAIN clients
               THEN RemoveClientInfo(client_id[t])
               ELSE UNCHANGED <<clients, active_client>>
    /\ pc' = [pc EXCEPT ![t] = "closed"]
    /\ UNCHANGED <<marketVars, mm_lock, local, next_node_id, thread_lock,
                   client_id, reply, notified, peer_closed>>
    /\ UNCHANGED extVars

\* the registered sessions that ended on an undecodable frame
BadFrameExits ==
    {u \in Sessions : pc[u] = "closed" /\ client_id[u] # NoClient /\ u \notin peer_closed}

\* handle_client, lines 177 and 209-217, with receive_message (lines 245-266):
\* MessageEncoder.deserialize raises on the frame of a registered session, the
\* exception leaves the loop and the finally block removes the client. (For a
\* session that has not registered the effect is that of
\* FirstMessageNotRegister.)
UndecodableFrame(t) ==
    /\ pc[t] = "idle"
    /\ t \notin peer_closed
    /\ client_id[t] # NoClient
    /\ is_running
    /\ Cardinality(peer_closed \cup BadFrameExits) < MaxCloses
    /\ thread_lock = NoThread
    /\ IF client_id[t] \in DOMAIN clients
       THEN RemoveClientInfo(client_id[t])
       ELSE UNCHANGED <<clients, active_client>>
    /\ pc' = [pc EXCEPT ![t] = "closed"]
    /\ UNCHANGED <<marketVars, mm_lock, local, next_node_id, thread_lock,
                   client_id, reply, notified, peer_closed>>
    /\ UNCHANGED extVars

\* Server.stop_server, lines 56-57: is_running = False and the snapshot
\* list(self.active_client)
StopServer ==
    /\ stop_pc = "idle"
    /\ is_running' = FALSE
    /\ to_clean' = active_client
    /\ stop_pc' = "cleanup"
    /\ UNCHANGED <<marketVars, mm_lock, pc, local, serverVars, listed,
                   max_clients, accepting, closed_by_server,
                   componentVars>>

\* Server.cleanup_client (lines 85-94), called by stop_server for socket t
CleanupClient(t) ==
    /\ stop_pc = "cleanup"
    /\ t \in to_clean
    /\ thread_lock = NoThread
    /\ closed_by_server' = closed_by_server \cup {t}
    /\ active_client' = active_client \ {t}
    /\ to_clean' = to_clean \ {t}
    /\ UNCHANGED <<marketVars, mm_lock, pc, local, clients, next_node_id,
                   thread_lock, client_id, reply, notified, peer_closed, listed,
                   max_clients, is_running, stop_pc, accepting,
                   componentVars>>

\* stop_server, line 59: thread_pool.shutdown(wait=True) is called
PoolShutdown ==
    /\ stop_pc = "cleanup"
    /\ to_clean = {}
    /\ stop_pc' = "wait"
    /\ UNCHANGED <<marketVars, mm_lock, pc, local, serverVars, listed,
                   max_clients, is_running, to_clean, accepting, closed_by_server,
                   componentVars>>

\* stop_server, lines 59-60: every worker has finished, shutdown returns and
\* Server.cleanup (lines 75-83) closes the listening socket
StopServerReturns ==
    /\ stop_pc = "wait"
    /\ \A t \in Sessions : pc[t] \in {"new", "closed", "orphan"}
    /\ stop_pc' = "done"
    /\ UNCHANGED <<marketVars, mm_lock, pc, local, serverVars, listed,
                   max_clients, is_running, to_clean, accepting, closed_by_server,
                   componentVars>>

\* connections, registrations, disconnects and stop_server
NextShutdown ==
    \/ \E t \in Sessions : AcceptConnection(t)
    \/ AcceptLoopExit
    \/ \E t \in Sessions, role \in ClientType : HandleRegister(t, role)
    \/ \E t \in Sessions : FirstMessageNotRegister(t)
    \/ \E t \in Sessions : PeerClose(t)
    \/ \E t \in Sessions : SessionExit(t)
    \/ StopServer
    \/ \E t \in Sessions : CleanupClient(t)
    \/ PoolShutdown
    \/ StopServerReturns

\* Server.handle_list_items_request (lines 353-368)
HandleListItems(t) ==
    /\ Ready(t, "buyer")
    /\ LockFree
    /\ reply' = [reply EXCEPT ![t] = "LIST_ITEMS"]
    /\ local' = [local EXCEPT ![t] = NoLocal]
    /\ UNCHANGED <<marketVars, mm_lock, pc, clients, active_client, next_node_id,
                   thread_lock, client_id, notified, peer_closed>>
    /\ UNCHANGED extVars

\* Server.handle_buy_request, lines 510-515: the call of try_purchase
HandleBuyRequest(t, id, q) ==
    /\ Ready(t, "buyer")
    /\ reply' = [reply EXCEPT ![t] = "none"]
    /\ try_purchase(t, id, q)
    /\ UNCHANGED <<clients, active_client, next_node_id, thread_lock, client_id,
                   notified, peer_closed>>
    /\ UNCHANGED extVars

\* socket.send on the connection of session t: it may fail once the peer has
\* closed the connection
SendOutcomes(t) == IF t \in peer_closed THEN BOOLEAN ELSE {TRUE}

\* the socket of the session that registered as node n: ClientInfo.socket
SocketOf(n) == CHOOSE t \in Sessions : client_id[t] = n

\* handle_buy_request, lines 516-534 and 553-559: after try_purchase returned.
\* The item and the seller's ClientInfo are read without a lock; then
\* send_message (lines 232-243) writes the length prefix of the notification
\* to the seller's socket (line 238).
BuyRequestReply(t) ==
    /\ pc[t] = "buy_ret"
    /\ LET id == local[t].item IN
       IF /\ local[t].ret = "True"
          /\ id \in active_items
          /\ item_obj[id].seller_id \in DOMAIN clients
       THEN LET seller == clients[item_obj[id].seller_id].socket IN
            \E sent \in SendOutcomes(seller) :
               IF sent
               THEN /\ pc' = [pc EXCEPT ![t] = "buy_notify"]
                    /\ UNCHANGED reply
               ELSE /\ reply' = [reply EXCEPT ![t] = "ERROR"]
                    /\ pc' = [pc EXCEPT ![t] = "idle"]
       ELSE /\ reply' = [reply EXCEPT ![t] = "ERROR"]
            /\ pc' = [pc EXCEPT ![t] = "idle"]
    /\ UNCHANGED <<marketVars, mm_lock, local, clients, active_client,
                   next_node_id, thread_lock, client_id, notified, peer_closed>>
    /\ UNCHANGED extVars

\* send_message, line 240: the payload of the notification is written to the
\* seller's socket; then handle_buy_request, lines 536-542, replies to the buyer
BuyNotifyPayload(t) ==
    /\ pc[t] = "buy_notify"
    /\ LET seller == SocketOf(item_obj[local[t].item].seller_id) IN
       \E sent \in SendOutcomes(seller) :
          IF sent
          THEN /\ notified' = [notified EXCEPT ![seller] = @ + 1]
               /\ reply' = [reply EXCEPT ![t] = "BUY_RESPONSE"]
               /\ pc' = [pc EXCEPT ![t] = "buy_broadcast"]
          ELSE /\ reply' = [reply EXCEPT ![t] = "ERROR"]
               /\ pc' = [pc EXCEPT ![t] = "idle"]
               /\ UNCHANGED notified
    /\ UNCHANGED <<marketVars, mm_lock, local, clients, active_client,
                   next_node_id, thread_lock, client_id, peer_closed>>
    /\ UNCHANGED extVars

\* Server.broadcast_to_buyers (lines 319-329) with get_clients_by_type (lines
\* 568-575): the worker takes thread_lock and get_clients_by_type takes it
\* again; threading.Lock is not reentrant, so the worker waits for itself and
\* the rest of its handler (lines 547-551 of handle_buy_request) never runs.
BroadcastToBuyers(t) ==
    /\ pc[t] \in {"buy_broadcast", "sale_broadcast"}
    /\ thread_lock = NoThread
    /\ thread_lock' = t
    /\ pc' = [pc EXCEPT ![t] = "blocked"]
    /\ UNCHANGED <<marketVars, mm_lock, local, clients, active_client,
                   next_node_id, client_id, reply, notified, peer_closed>>
    /\ UNCHANGED extVars

\* the names a SALE_START may carry (ItemType.from_string rejects the last)
\* and its quantities: one that two purchases overdraw, one that they sell out
SaleNames == {ItemType[1], "gold"}
SessionSaleQuantities == {MaxQty, 2 * (MaxQty - 1)}

\* Server.handle_sale_start (lines 469-478 and 500-506): the call of
\* start_sale, and the ERROR that answers its exception
HandleSaleStart(t, name, q) ==
    /\ Ready(t, "seller")
    /\ local' = [local EXCEPT ![t] = NoLocal]
    /\ IF name \notin ItemTypes
       THEN /\ reply' = [reply EXCEPT ![t] = "ERROR"]
            /\ UNCHANGED <<marketVars, pc>>
       ELSE /\ LockFree
            /\ start_sale(client_id[t], name, q)
            /\ last'.result = "ok" => last'.item <= MaxSessionSales
            /\ reply' = [reply EXCEPT ![t] =
                           IF last'.result = "ok" THEN @ ELSE "ERROR"]
            /\ pc' = [pc EXCEPT ![t] =
                        IF last'.result = "ok" THEN "sale_reply" ELSE "idle"]
    /\ UNCHANGED <<mm_lock, clients, active_client, next_node_id, thread_lock,
                   client_id, notified, peer_closed>>
    /\ UNCHANGED extVars

\* handle_sale_start, lines 480-492 and 500-506: the confirmation is written
\* to the seller.  On a connection that the seller has closed send_message
\* raises; the ERROR of the except branch is written to the same socket and
\* raises too, handle_seller_message (lines 447-449) swallows it, and the
\* handler returns without the broadcast.
SaleStartReply(t) ==
    /\ pc[t] = "sale_reply"
    /\ \E sent \in SendOutcomes(t) :
          IF sent
          THEN /\ reply' = [reply EXCEPT ![t] = "SALE_START"]
               /\ pc' = [pc EXCEPT ![t] = "sale_broadcast"]
          ELSE /\ pc' = [pc EXCEPT ![t] = "idle"]
               /\ UNCHANGED reply
    /\ UNCHANGED <<marketVars, mm_lock, local, clients, active_client,
                   next_node_id, thread_lock, client_id, notified, peer_closed>>
    /\ UNCHANGED extVars

\* Server.handle_sale_end (lines 386-411): under thread_lock it reads
\* self.active_sales, which Server never defines; the AttributeError is
\* answered with an ERROR
HandleSaleEnd(t) ==
    /\ Ready(t, "seller")
    /\ thread_lock = NoThread
    /\ reply' = [reply EXCEPT ![t] = "ERROR"]
    /\ local' = [local EXCEPT ![t] = NoLocal]
    /\ UNCHANGED <<marketVars, mm_lock, pc, clients, active_client, next_node_id,
                   thread_lock, client_id, notified, peer_closed>>
    /\ UNCHANGED extVars

\* Server.handle_stock_update (lines 370-384): the same read of
\* self.active_sales; the item's quantity is never assigned
StockUpdateRaises(t, id, q) == item_obj

HandleStockUpdate(t, id, q) ==
    /\ Ready(t, "seller")
    /\ thread_lock = NoThread
    /\ id \in DOMAIN item_obj
    /\ item_obj' = StockUpdateRaises(t, id, q)
    /\ reply' = [reply EXCEPT ![t] = "ERROR"]
    /\ local' = [local EXCEPT ![t] = NoLocal]
    /\ UNCHANGED <<threading_bound, seller_stocks, active_items,
                   item_rotation_timers, timer_state, sale_history, sold, last,
                   mm_lock, pc, clients, active_client, next_node_id,
                   thread_lock, client_id, notified, peer_closed>>
    /\ UNCHANGED extVars

\* a handler that ends the session instead of answering
DropOnInvalidType(t) ==
    /\ pc[t] = "idle"
    /\ t \notin peer_closed
    /\ client_id[t] \in DOMAIN clients
    /\ pc' = [pc EXCEPT ![t] = "closed"]
    /\ local' = [local EXCEPT ![t] = NoLocal]
    /\ UNCHANGED <<marketVars, mm_lock, reply, clients, active_client, next_node_id,
                   thread_lock, client_id, notified, peer_closed>>
    /\ UNCHANGED extVars

\* handle_buyer_message / handle_seller_message, `case _` (lines 443-445 and
\* 461-463): a message type the role does not accept
HandleInvalidType(t) ==
    /\ pc[t] = "idle"
    /\ t \notin peer_closed
    /\ client_id[t] \in DOMAIN clients
    /\ reply' = [reply EXCEPT ![t] = "ERROR"]
    /\ local' = [local EXCEPT ![t] = NoLocal]
    /\ UNCHANGED <<marketVars, mm_lock, pc, clients, active_client, next_node_id,
                   thread_lock, client_id, notified, peer_closed>>
    /\ UNCHANGED extVars

NextServer ==
    \/ \E t \in Sessions : AcceptConnection(t)
    \/ \E t \in Sessions, role \in ClientType : HandleRegister(t, role)
    \/ \E t \in Sessions : RegisterInitStock(t)
    \/ \E t \in Sessions : FirstMessageNotRegister(t)
    \/ \E t \in Sessions : PeerClose(t)
    \/ \E t \in Sessions : SessionExit(t)
    \/ \E t \in Sessions : HandleListItems(t)
    \/ \E t \in Sessions, id \in ItemIds, q \in PurchaseQuantities :
          HandleBuyRequest(t, id, q)
    \/ \E t \in Sessions : TryPurchaseLoad(t)
    \/ \E t \in Sessions : TryPurchaseStore(t)
    \/ \E t \in Sessions : BuyRequestReply(t)
    \/ \E t \in Sessions : BuyNotifyPayload(t)
    \/ \E t \in Sessions : BroadcastToBuyers(t)
    \/ \E t \in Sessions, name \in SaleNames, q \in SessionSaleQuantities :
          HandleSaleStart(t, name, q)
    \/ \E t \in Sessions : SaleStartReply(t)
    \/ \E t \in Sessions : HandleSaleEnd(t)
    \/ \E t \in Sessions, id \in ItemIds, q \in PurchaseQuantities :
          HandleStockUpdate(t, id, q)
    \/ \E t \in Sessions : HandleInvalidType(t)
    \/ \E id \in ItemIds : TimerFire(id)
    \/ \E id \in ItemIds : HandleUnsoldItems(id)
    \/ \E id \in ItemIds : RotateSellerItems(id)

\* the server as constructed, and the same server with self.max_clients set
\* to a cap that the sessions of the model can reach
InitServer == \E cap \in {SmallCap, DEFAULT_MAX_CLIENTS} : Constructed(cap)

SpecServer == InitServer /\ [][NextServer]_vars

SpecShutdown == InitServer /\ [][NextShutdown]_vars

\* the server with self.max_clients set to the small cap and as many
\* connections, whose sessions may also receive a frame that cannot be decoded
\* and whose seller may leave before its SALE_START is confirmed
InitSession == Constructed(SmallCap)

SessionPair == {t \in Sessions : t[2] <= SmallCap}

\* (with SmallCap connections a seller that finds the manager lock
\* taken inside register_client waits for a holder that never releases it, so
\* RegisterInitStock has no step here)
NextSession ==
    \/ \E t \in SessionPair : AcceptConnection(t)
    \/ \E t \in SessionPair, role \in ClientType : HandleRegister(t, role)
    \/ \E t \in SessionPair : FirstMessageNotRegister(t)
    \/ \E t \in SessionPair : PeerClose(t)
    \/ \E t \in SessionPair : PeerCloseAfterRequest(t)
    \/ \E t \in SessionPair : SessionExit(t)
    \/ \E t \in SessionPair : UndecodableFrame(t)
    \/ \E t \in SessionPair : HandleListItems(t)
    \/ \E t \in SessionPair, id \in ItemIds, q \in PurchaseQuantities :
          HandleBuyRequest(t, id, q)
    \/ \E t \in SessionPair : TryPurchaseLoad(t)
    \/ \E t \in SessionPair : TryPurchaseStore(t)
    \/ \E t \in SessionPair : BuyRequestReply(t)
    \/ \E t \in SessionPair : BuyNotifyPayload(t)
    \/ \E t \in SessionPair : BroadcastToBuyers(t)
    \/ \E t \in SessionPair, name \in SaleNames, q \in SessionSaleQuantities :
          HandleSaleStart(t, name, q)
    \/ \E t \in SessionPair : SaleStartReply(t)
    \/ \E t \in SessionPair : HandleSaleEnd(t)
    \/ \E t \in SessionPair, id \in ItemIds, q \in PurchaseQuantities :
          HandleStockUpdate(t, id, q)
    \/ \E t \in SessionPair : HandleInvalidType(t)
    \/ \E id \in ItemIds : TimerFire(id)
    \/ \E id \in ItemIds : HandleUnsoldItems(id)
    \/ \E id \in ItemIds : RotateSellerItems(id)

SpecSession == InitSession /\ [][NextSession]_vars

----
\* A client (src/src/core/Client): the calling thread sends a request and
\* calls wait_for_response, the handle_messages thread stores the replies.
\* SellerClient leaves process_message_update abstract, so an object of that
\* class exists only through a subclass that defines it.

\* the caller is between two calls
CallerIdle ==
    /\ wait_pc \in {"idle", "send_failed", "returned", "timed_out"}
    /\ reg_pc # "active"

\* Client.send_message, lines 63-67: not connected raises ConnectionError
\* before any write
send_message_entry ==
    /\ Len(in_flight) < MaxInFlight
    /\ attempts' = 0
    /\ writes' = 0
    /\ IF client_socket = "None" \/ ~connected
       THEN /\ wait_pc' = "send_failed"
            /\ raised' = "ConnectionError"
       ELSE /\ wait_pc' = "sending"
            /\ raised' = "none"

\* a request of a registered client (list_items, buy_item, start_sale, ...)
\* calls send_message
SendMessage ==
    /\ CallerIdle
    /\ send_message_entry
    /\ UNCHANGED <<response_received, last_response, remaining_time, rx_pc,
                   arrived, in_flight, client_class, runtime, registered,
                   reg_pc, registration_event>>
    /\ UNCHANGED outsideClient

\* BuyerClient.register, lines 64-73; SellerClient.register, lines 40-49 (it
\* clears registration_event first): REGISTER is handed to send_message
Register ==
    /\ CallerIdle
    /\ reg_pc = "none"
    /\ reg_pc' = "active"
    /\ registration_event' =
         IF client_class = "SellerClient" THEN FALSE ELSE registration_event
    /\ send_message_entry
    /\ UNCHANGED <<response_received, last_response, remaining_time, rx_pc,
                   arrived, in_flight, client_class, runtime, registered>>
    /\ UNCHANGED outsideClient

\* while attempts < self.MAX_RETRY_ATTEMPTS (line 69)
NoRetryLimit(n) == TRUE
WithinRetryLimit(n) == n < MAX_RETRY_ATTEMPTS

\* send_message, lines 69-85: one pass of the loop.  The write succeeds and the
\* call returns, or it fails and attempts is counted; after the last attempt
\* the last error is raised.  The server answers REGISTER with ACK and a
\* request with a reply.
SendAttempt ==
    /\ wait_pc = "sending"
    /\ WithinRetryLimit(attempts)
    /\ writes' = writes + 1
    /\ \E ok \in BOOLEAN :
         IF ok
         THEN /\ wait_pc' = IF reg_pc = "active" THEN "reg_sent" ELSE "sent"
              /\ in_flight' = Append(in_flight,
                                 IF reg_pc = "active" THEN "ACK" ELSE "reply")
              /\ arrived' = FALSE
              /\ UNCHANGED <<attempts, raised>>
         ELSE /\ attempts' = attempts + 1
              /\ IF WithinRetryLimit(attempts + 1)
                 THEN UNCHANGED <<wait_pc, raised>>
                 ELSE /\ wait_pc' = "send_failed"
                      /\ raised' = "OSError"
              /\ UNCHANGED <<in_flight, arrived>>
    /\ UNCHANGED <<response_received, last_response, remaining_time, rx_pc,
                   client_class, runtime, registered, reg_pc,
                   registration_event>>
    /\ UNCHANGED outsideClient

\* register: send_message raised.  BuyerClient.register (lines 81-83) logs
\* the error and returns False, SellerClient.register (lines 57-59) raises it
\* again.
RegisterSendFailed ==
    /\ reg_pc = "active"
    /\ wait_pc = "send_failed"
    /\ reg_pc' = "failed"
    /\ wait_pc' = "idle"
    /\ raised' = IF client_class = "BuyerClient" THEN "none" ELSE raised
    /\ UNCHANGED <<response_received, last_response, remaining_time, rx_pc,
                   arrived, in_flight, client_class, runtime, registered,
                   attempts, writes, registration_event>>
    /\ UNCHANGED outsideClient

\* BuyerClient.register, lines 75-83: registration_event.wait(timeout=5.0);
\* the TimeoutError of line 76 is caught at line 81 and False is returned
RegisterWait ==
    /\ client_class = "BuyerClient"
    /\ wait_pc = "reg_sent"
    /\ reg_pc' = IF registration_event THEN "ok" ELSE "failed"
    /\ wait_pc' = "idle"
    /\ UNCHANGED <<response_received, last_response, remaining_time, rx_pc,
                   arrived, in_flight, client_class, runtime, registered,
                   raised, attempts, writes, registration_event>>
    /\ UNCHANGED outsideClient

\* SellerClient.register, lines 51-59: self.start_message_handling() is not
\* defined anywhere, the AttributeError is logged and raised again
RegisterStartHandling ==
    /\ client_class = "SellerClient"
    /\ wait_pc = "reg_sent"
    /\ reg_pc' = "failed"
    /\ raised' = "AttributeError"
    /\ wait_pc' = "idle"
    /\ UNCHANGED <<response_received, last_response, remaining_time, rx_pc,
                   arrived, in_flight, client_class, runtime, registered,
                   attempts, writes, registration_event>>
    /\ UNCHANGED outsideClient

\* wait_for_response, line 149 (SellerClient: line 30): the Event is cleared
\* before the wait.  Client polls in slices of 0.5 s, SellerClient waits once.
ClearSignal == FALSE

WaitClear ==
    /\ wait_pc = "sent"
    /\ response_received' = ClearSignal
    /\ \E n \in {1, MaxSlices} :
         /\ client_class = "SellerClient" => n = 1
         /\ remaining_time' = n
    /\ wait_pc' = "waiting"
    /\ UNCHANGED <<last_response, rx_pc, arrived, in_flight, client_class,
                   runtime, registered, raised, attempts, writes, reg_pc,
                   registration_event>>
    /\ UNCHANGED outsideClient

\* wait_for_response, lines 154-158 and 164: the Event is set, the message is
\* taken under response_lock and returned
WaitReturn ==
    /\ wait_pc = "waiting"
    /\ response_received
    /\ wait_pc' = "returned"
    /\ last_response' = "None"
    /\ response_received' = FALSE
    /\ remaining_time' = 0
    /\ UNCHANGED <<rx_pc, arrived, in_flight, client_class, runtime,
                   registered, raised, attempts, writes, reg_pc,
                   registration_event>>
    /\ UNCHANGED outsideClient

\* the exception of an expired wait: client.py line 161, seller_client.py
\* line 32
TimeoutRaised ==
    IF client_class = "SellerClient" THEN "RuntimeError" ELSE "TimeoutError"

\* wait_for_response, lines 154 and 159-164: a slice ends with the Event not
\* set; after the last slice the timeout is raised
WaitSliceTimeout ==
    /\ wait_pc = "waiting"
    /\ ~response_received
    /\ remaining_time' = remaining_time - 1
    /\ IF remaining_time = 1
       THEN /\ wait_pc' = "timed_out"
            /\ raised' = TimeoutRaised
       ELSE UNCHANGED <<wait_pc, raised>>
    /\ UNCHANGED <<response_received, last_response, rx_pc, arrived,
                   in_flight, client_class, runtime, registered, attempts,
                   writes, reg_pc, registration_event>>
    /\ UNCHANGED outsideClient

\* handle_messages, lines 130-135 (SellerClient: lines 145-206): a reply is
\* received and stored
StoreReply ==
    /\ rx_pc = "recv"
    /\ client_is_running
    /\ in_flight # <<>>
    /\ Head(in_flight) = "reply"
    /\ in_flight' = Tail(in_flight)
    /\ last_response' = "reply"
    /\ rx_pc' = "store"
    /\ UNCHANGED <<response_received, wait_pc, remaining_time, arrived,
                   client_class, runtime, registered, raised, attempts, writes,
                   reg_pc, registration_event>>
    /\ UNCHANGED outsideClient

\* the ACK is received.  BuyerClient.process_message_update (lines 29-34)
\* takes the node id, then Client.handle_messages (lines 134-136) stores the
\* message; SellerClient.handle_messages (lines 153-157) only takes the node id.
ReceiveAck ==
    /\ rx_pc = "recv"
    /\ client_is_running
    /\ in_flight # <<>>
    /\ Head(in_flight) = "ACK"
    /\ in_flight' = Tail(in_flight)
    /\ client_node_id' = "node"
    /\ registered' = TRUE
    /\ registration_event' = TRUE
    /\ IF client_class = "BuyerClient"
       THEN /\ last_response' = "ACK"
            /\ rx_pc' = "store"
       ELSE UNCHANGED <<last_response, rx_pc>>
    /\ UNCHANGED <<response_received, wait_pc, remaining_time, arrived,
                   client_class, client_socket, connected, client_is_running,
                   raised, attempts, writes, reg_pc>>
    /\ UNCHANGED outsideClient

\* the server writes a broadcast (STOCK_UPDATE) to the socket of the
\* registered client
BroadcastArrives ==
    /\ registered
    /\ client_is_running
    /\ Len(in_flight) < MaxInFlight
    /\ in_flight' = Append(in_flight, "STOCK_UPDATE")
    /\ UNCHANGED <<response_received, last_response, wait_pc, remaining_time,
                   rx_pc, arrived, client_class, runtime, registered, raised,
                   attempts, writes, reg_pc, registration_event>>
    /\ UNCHANGED outsideClient

\* a frame arrives whose payload MessageEncoder.deserialize cannot decode
GarbledFrameArrives ==
    /\ client_is_running
    /\ Len(in_flight) < MaxInFlight
    /\ in_flight' = Append(in_flight, "garbled")
    /\ UNCHANGED <<response_received, last_response, wait_pc, remaining_time,
                   rx_pc, arrived, client_class, runtime, registered, raised,
                   attempts, writes, reg_pc, registration_event>>
    /\ UNCHANGED outsideClient

\* what handle_messages keeps of a STOCK_UPDATE: Client.handle_messages,
\* lines 134-136, stores every message; SellerClient.handle_messages, lines
\* 176-191, stores none
StoresUpdate(cls) == cls = "BuyerClient"

\* handle_messages, lines 130-136, on a STOCK_UPDATE:
\* BuyerClient.process_message_update (lines 47-48) handles it, then the loop
\* stores it as last_response
ReceiveUpdate ==
    /\ rx_pc = "recv"
    /\ client_is_running
    /\ in_flight # <<>>
    /\ Head(in_flight) = "STOCK_UPDATE"
    /\ in_flight' = Tail(in_flight)
    /\ IF StoresUpdate(client_class)
       THEN /\ last_response' = "STOCK_UPDATE"
            /\ rx_pc' = "store"
       ELSE UNCHANGED <<last_response, rx_pc>>
    /\ UNCHANGED <<response_received, wait_pc, remaining_time, arrived,
                   client_class, runtime, registered, raised, attempts, writes,
                   reg_pc, registration_event>>
    /\ UNCHANGED outsideClient

\* what handle_messages does with the ValueError of receive_message (lines
\* 119-123): Client.handle_messages, lines 142-144, logs it and continues;
\* SellerClient.handle_messages, lines 208-210, clears is_running
ExitsOnDecodeError(cls) == cls = "SellerClient"

\* handle_messages, line 130: receive_message raises ValueError on a frame
\* that cannot be decoded
ReceiveUndecodable ==
    /\ rx_pc = "recv"
    /\ client_is_running
    /\ in_flight # <<>>
    /\ Head(in_flight) = "garbled"
    /\ in_flight' = Tail(in_flight)
    /\ IF ExitsOnDecodeError(client_class)
       THEN /\ client_is_running' = FALSE
            /\ rx_pc' = "exited"
       ELSE UNCHANGED <<client_is_running, rx_pc>>
    /\ UNCHANGED <<response_received, last_response, wait_pc, remaining_time,
                   arrived, client_class, client_socket, connected,
                   client_node_id, registered, raised, attempts, writes,
                   reg_pc, registration_event>>
    /\ UNCHANGED outsideClient

\* handle_messages, line 136: response_received.set()
SetSignal ==
    /\ rx_pc = "store"
    /\ response_received' = TRUE
    /\ rx_pc' = "recv"
    /\ arrived' = (arrived \/ wait_pc \in {"sent", "waiting"})
    /\ UNCHANGED <<last_response, wait_pc, remaining_time, in_flight,
                   client_class, runtime, registered, raised, attempts, writes,
                   reg_pc, registration_event>>
    /\ UNCHANGED outsideClient

\* handle_messages, lines 138-141 (SellerClient: lines 208-210): the server
\* closed the connection, the loop clears is_running and ends
ReceiveFails ==
    /\ rx_pc = "recv"
    /\ client_is_running
    /\ client_is_running' = FALSE
    /\ rx_pc' = "exited"
    /\ in_flight' = <<>>
    /\ UNCHANGED <<response_received, last_response, wait_pc, remaining_time,
                   arrived, client_class, client_socket, connected,
                   client_node_id, registered, raised, attempts, writes,
                   reg_pc, registration_event>>
    /\ UNCHANGED outsideClient

\* Client.disconnect (lines 48-58), called between two requests
Disconnect ==
    /\ CallerIdle
    /\ connected
    /\ client_is_running' = FALSE
    /\ client_socket' = "None"
    /\ connected' = FALSE
    /\ UNCHANGED <<response_received, last_response, wait_pc, remaining_time,
                   rx_pc, arrived, in_flight, client_class, client_node_id,
                   registered, raised, attempts, writes, reg_pc,
                   registration_event>>
    /\ UNCHANGED outsideClient

NextClient ==
    \/ SendMessage
    \/ Register
    \/ SendAttempt
    \/ RegisterSendFailed
    \/ RegisterWait
    \/ RegisterStartHandling
    \/ ReceiveAck
    \/ WaitClear
    \/ WaitReturn
    \/ WaitSliceTimeout
    \/ StoreReply
    \/ BroadcastArrives
    \/ GarbledFrameArrives
    \/ ReceiveUpdate
    \/ ReceiveUndecodable
    \/ SetSignal
    \/ ReceiveFails
    \/ Disconnect

SpecClient == InitClient /\ [][NextClient]_vars

----
\* MessageEncoder (src/src/core/Server/message_encoder.py).  A Python value is
\* a pair <<class, text>> or <<class, items>>; a JSON value is a pair
\* <<kind, text>> or <<"array", items>>.

\* MessageType: member name -> wire string (message_type.py, lines 4-14)
MessageType ==
    [LIST_ITEMS |-> "list_items", ITEM_UPDATE |-> "item_update",
     BUY_REQUEST |-> "buy_request", BUY_RESPONSE |-> "buy_response",
     STOCK_UPDATE |-> "stock_update", SALE_START |-> "sale_start",
     SALE_END |-> "sale_end", ERROR |-> "error", ACK |-> "acknowledgment",
     REGISTER |-> "register"]

IntTexts == {"1"}
FloatTexts == {"1.5"}

\* the values a data map may hold, and its keys
PyAtoms ==
    {<<"str", "a">>, <<"bool", "true">>, <<"None", "">>}
      \cup {<<"int", t>> : t \in IntTexts}
      \cup {<<"float", t>> : t \in FloatTexts}
PyItems == UNION {[1..n -> {<<"int", t>> : t \in IntTexts}] : n \in 0..MaxItems}
PyValues ==
    PyAtoms \cup {<<"list", it>> : it \in PyItems}
            \cup {<<"tuple", it>> : it \in PyItems}
PyKeys == {<<"str", "k">>} \cup {<<"int", t>> : t \in IntTexts}

\* a dict, as the sequence of its entries in insertion order
Dicts ==
    UNION {{d \in [1..n -> PyKeys \X PyValues] :
              \A i, j \in 1..n : i # j => d[i][1] # d[j][1]} : n \in 0..MaxKeys}

\* Message(type, data, sender_id)
Messages ==
    [type : DOMAIN MessageType, data : Dicts,
     sender_id : {<<"str", "server">>, <<"None", "">>}]

\* json.dumps of one value: a tuple is written as an array, like a list
dumps(v) ==
    CASE v[1] = "str" -> <<"string", v[2]>>
      [] v[1] \in {"int", "float"} -> <<"number", v[2]>>
      [] v[1] = "bool" -> <<"literal", v[2]>>
      [] v[1] = "None" -> <<"null", "">>
      [] v[1] \in {"list", "tuple"} ->
           <<"array", [i \in DOMAIN v[2] |-> <<"number", v[2][i][2]>>]>>

\* json.dumps of a dict key: every key is written as a string
dumps_key(k) == k[2]

\* json.loads of one value: every array is read as a list
loads(j) ==
    CASE j[1] = "string" -> <<"str", j[2]>>
      [] j[1] = "number" ->
           IF j[2] \in FloatTexts THEN <<"float", j[2]>> ELSE <<"int", j[2]>>
      [] j[1] = "literal" -> <<"bool", j[2]>>
      [] j[1] = "null" -> <<"None", "">>
      [] j[1] = "array" ->
           <<"list", [i \in DOMAIN j[2] |-> <<"int", j[2][i][2]>>]>>

\* MessageEncoder.serialize (lines 8-16)
serialize(m) ==
    [type |-> MessageType[m.type],
     data |-> [i \in DOMAIN m.data |->
                 <<dumps_key(m.data[i][1]), dumps(m.data[i][2])>>],
     sender_id |-> dumps(m.sender_id)]

\* MessageType(value): the member whose wire string is value
MessageTypeOf(value) == CHOOSE n \in DOMAIN MessageType : MessageType[n] = value

\* MessageEncoder.deserialize (lines 18-29)
deserialize(w) ==
    [type |-> MessageTypeOf(w.type),
     data |-> [i \in DOMAIN w.data |->
                 <<<<"str", w.data[i][1]>>, loads(w.data[i][2])>>],
     sender_id |-> loads(w.sender_id)]

Serialize ==
    /\ codec_msg # NoMessage
    /\ wire = NoWire
    /\ wire' = serialize(codec_msg)
    /\ UNCHANGED <<codec_msg, decoded>>
    /\ UNCHANGED <<serverProcessVars, clientVars, queueVars>>

Deserialize ==
    /\ wire # NoWire
    /\ decoded = NoMessage
    /\ decoded' = deserialize(wire)
    /\ UNCHANGED <<codec_msg, wire>>
    /\ UNCHANGED <<serverProcessVars, clientVars, queueVars>>

NextCodec == Serialize \/ Deserialize

InitCodec ==
    /\ ConstructedAs(DEFAULT_MAX_CLIENTS, "BuyerClient")
    /\ EmptyQueue
    /\ codec_msg \in Messages
    /\ wire = NoWire
    /\ decoded = NoMessage

SpecCodec == InitCodec /\ [][NextCodec]_vars

----
\* EventQueue (src/src/core/Queue/event_queue.py).  An Event is the pair of
\* its time and of a serial number that stands for its other fields.

\* list.sort(key=...) is stable: e goes behind the events that are not later
RECURSIVE InsertByTime(_, _)
InsertByTime(s, e) ==
    IF s = <<>> THEN <<e>>
    ELSE IF s[1][1] <= e[1] THEN <<s[1]>> \o InsertByTime(Tail(s), e)
    ELSE <<e>> \o s

RECURSIVE InsertionSort(_)
InsertionSort(s) ==
    IF s = <<>> THEN <<>>
    ELSE InsertByTime(InsertionSort(SubSeq(s, 1, Len(s) - 1)), s[Len(s)])

\* self.queue.sort(key=lambda event: event.time) (line 11)
KeepOrder(s) == s
SortByTime(s) == InsertionSort(s)

\* EventQueue.enqueue (lines 8-11)
Enqueue(time) ==
    /\ Len(enqueued) < MaxEvents
    /\ LET event == <<time, Len(enqueued) + 1>> IN
       /\ queue' = SortByTime(Append(queue, event))
       /\ enqueued' = Append(enqueued, event)
    /\ mixed' = (mixed \/ dequeued # <<>>)
    /\ UNCHANGED dequeued
    /\ UNCHANGED <<serverProcessVars, clientVars, codecVars>>

\* EventQueue.is_empty (lines 25-27)
is_empty == Len(queue) = 0

\* EventQueue.dequeue (lines 13-17): pop(0), or None on an empty queue
Dequeue ==
    /\ IF queue # <<>>
       THEN /\ dequeued' = Append(dequeued, Head(queue))
            /\ queue' = Tail(queue)
       ELSE UNCHANGED <<queue, dequeued>>
    /\ UNCHANGED <<enqueued, mixed>>
    /\ UNCHANGED <<serverProcessVars, clientVars, codecVars>>

NextQueue ==
    \/ \E time \in 1..MaxTime : Enqueue(time)
    \/ Dequeue

SpecQueue == Init /\ [][NextQueue]_vars

----
\* sum of the quantities of the items in S
RECURSIVE SumQuantity(_, _)
SumQuantity(items, S) ==
    IF S = {} THEN 0
    ELSE LET x == CHOOSE x \in S : TRUE
         IN  items[x].quantity + SumQuantity(items, S \ {x})

\* sum of the accepted purchases of the items in S
RECURSIVE SumSold(_, _)
SumSold(sl, S) ==
    IF S = {} THEN 0
    ELSE LET x == CHOOSE x \in S : TRUE IN sl[x] + SumSold(sl, S \ {x})

ItemsOf(items, S, s, ty) ==
    {id \in S : items[id].seller_id = s /\ items[id].item_type = ty}

\* reserve plus what is on sale, for one seller and item type
Total(stocks, items, active, s, ty) ==
    stocks[s][ty].quantity + SumQuantity(items, ItemsOf(items, active, s, ty))

\* a step in which start_sale created a sale
SaleCreated == Cardinality(DOMAIN item_obj') = Cardinality(DOMAIN item_obj) + 1

\* C1: concurrent try_purchase calls against one item never accept more than
\* the item holds, and the item's quantity is exactly its quantity at creation
\* minus the sum of the accepted purchases (no lost update, no overdraft).
C1_PurchaseAtomicity ==
    \A id \in DOMAIN item_obj :
        /\ item_obj[id].quantity = item_obj[id].created - sold[id]
        /\ sold[id] >= 0
        /\ item_obj[id].created >= 0 =>
              (sold[id] <= item_obj[id].created /\ item_obj[id].quantity >= 0)

C1_Witness ==
    \E id \in active_items :
        /\ sold[id] > 0
        /\ last = Done("try_purchase", id, "False")

\* the server has answered the BUY_REQUEST of session b for item id
Answered(b, id) ==
    /\ pc[b] \in {"idle", "buy_broadcast", "blocked"}
    /\ local[b].item = id
    /\ local[b].ret \in {"True", "False"}
    /\ reply[b] \in {"BUY_RESPONSE", "ERROR"}

C8_OneSalePerSeller ==
    /\ \A s \in DOMAIN seller_stocks :
          Cardinality({id \in active_items : item_obj[id].seller_id = s}) <= 1
    /\ last = Done("start_sale", 0, "AlreadyActive") => active_items # {}

C8_Witness ==
    /\ last = Done("start_sale", 0, "AlreadyActive")
    /\ \E id \in active_items : sold[id] > 0

C10_EndSaleIdempotent ==
    [][(last'.op = "end_sale" /\ last'.item \notin active_items) =>
         UNCHANGED <<seller_stocks, item_obj, active_items,
                     item_rotation_timers, timer_state>>]_vars

C10_Witness ==
    /\ last.op = "end_sale"
    /\ last.result = "None"
    /\ last.item \in DOMAIN item_obj
    /\ item_obj[last.item].quantity > 0

\* the step in which thread t performs the write of item.quantity and returns
StoreStep(t) == pc[t] = "tp_store" /\ pc'[t] # "tp_store"

\* C11: a try_purchase that returns false or fails (NotFound, InvalidArgument)
\* leaves every sale quantity, every stock entry, the active set and the
\* timers unchanged; a call that returns true lowers the quantity of its item
\* by exactly the requested quantity and changes nothing else.
C11_TryPurchaseFrame ==
    [][/\ (last'.op = "try_purchase" /\ last'.result # "True")
          => UNCHANGED <<seller_stocks, item_obj, active_items,
                         item_rotation_timers, timer_state>>
       /\ \A t \in Threads : StoreStep(t) =>
             /\ last' = Done("try_purchase", local[t].item, "True")
             /\ item_obj' = [item_obj EXCEPT ![local[t].item].quantity = @ - local[t].q]
             /\ UNCHANGED <<seller_stocks, active_items, item_rotation_timers,
                            timer_state>>]_vars

C11_Witness ==
    /\ last.op = "try_purchase" /\ last.result = "InvalidArgument"
    /\ \E id \in active_items : sold[id] > 0 /\ item_obj[id].quantity > 0

C14_OneAckFreshNodeId ==
    [][\A t \in Sessions :
         /\ (reply'[t] = "ACK" /\ reply[t] # "ACK")
               => /\ pc[t] \in {"wait_register", "reg_wait_mm"}
                  /\ pc'[t] = "idle"
                  /\ client_id'[t] \in DOMAIN clients'
         /\ pc'[t] \in {"wait_register", "reg_wait_mm"}
               => pc[t] \in {"new", "wait_register", "reg_wait_mm"}
         /\ client_id'[t] # client_id[t]
               => /\ client_id[t] = NoClient
                  /\ pc[t] = "wait_register"
                  /\ client_id'[t][1] = clients'[client_id'[t]].client_type
                  /\ \A u \in Sessions :
                        client_id[u] # NoClient => client_id'[t][2] > client_id[u][2]]_vars

C14_Witness ==
    \E t, u \in Sessions :
        /\ pc[t] = "closed" /\ client_id[t] # NoClient
        /\ client_id[t] \notin DOMAIN clients
        /\ pc[u] = "idle" /\ reply[u] = "ACK"
        /\ client_id[u][2] > client_id[t][2]

\* a session dropped before it registered, its client not having closed first
Dropped(t) == pc[t] = "closed" /\ client_id[t] = NoClient /\ t \notin peer_closed

\* C15: a session whose first message is not REGISTER is dropped: nothing was
\* ever written to its socket, no ClientInfo holds its socket, and the step
\* that drops it allocates no node id.
C15_FirstMessageMustRegister ==
    [][\A t \in Sessions : Dropped(t)' =>
          /\ reply'[t] = "none" /\ notified'[t] = 0
          /\ \A n \in DOMAIN clients' : clients'[n].socket # t
          /\ ~Dropped(t) => (next_node_id' = next_node_id /\ clients' = clients)]_vars

C15_Witness ==
    \E t, u \in Sessions :
        /\ Dropped(t)
        /\ pc[u] = "idle" /\ reply[u] = "ACK" /\ u[2] > t[2]

\* a connection refused at the cap
Rejected(t) == pc[t] = "closed" /\ client_id[t] = NoClient /\ t \notin active_client

\* the sessions whose worker is running
Running == {t \in Sessions : pc[t] \notin {"new", "closed"}}

\* C16: the active-connection set and the running sessions never outnumber
\* max_clients; a connection accepted while the set is at the cap is closed in
\* that step, is not added to the set, gets no worker and is never written to.
C16_CapacityCap ==
    [][/\ Cardinality(active_client') <= max_clients
       /\ Cardinality(Running') <= max_clients
       /\ \A t \in Sessions :
            /\ (pc[t] = "new" /\ pc'[t] # "new"
                  /\ Cardinality(active_client) >= max_clients)
                 => (Rejected(t)' /\ active_client' = active_client)
            /\ Rejected(t)' => (reply'[t] = "none" /\ notified'[t] = 0)]_vars

C16_Witness ==
    \E t \in Sessions :
        /\ Rejected(t)
        /\ Cardinality(active_client) = max_clients
        /\ Cardinality(Running) = max_clients

\* thread u never runs again: it waits for a lock that it holds itself, or
\* that a thread holds which never runs again
HoldsManagerForever ==
    \/ mm_lock \in Threads /\ pc[mm_lock] = "blocked"
    \/ \E id \in DOMAIN timer_state :
          mm_lock = TimerThread(id) /\ timer_state[id] = "blocked"

HoldsRegistryForever ==
    /\ thread_lock \in Sessions
    /\ \/ pc[thread_lock] = "blocked"
       \/ pc[thread_lock] = "reg_wait_mm" /\ HoldsManagerForever

C18_ExitedSessionUnregistered ==
    \A t \in Sessions :
        (pc[t] = "closed" /\ client_id[t] # NoClient)
            => client_id[t] \notin DOMAIN clients

\* C19: when stop_server has returned, no session loop is running and no
\* accepted connection is left with its socket open.
C19_StopServerLeavesNothing ==
    stop_pc = "done" => \A t \in Sessions : pc[t] \in {"new", "closed"}

\* C20: wait_for_response fails with TimeoutError only if the receive loop
\* delivered (stored and signalled) no reply between the send and the timeout.
C20_NoLostWakeup == wait_pc = "timed_out" => ~arrived


----
C22_SendMessageRetries ==
    /\ writes <= MAX_RETRY_ATTEMPTS
    /\ wait_pc \in {"sent", "reg_sent"}
         => writes = attempts + 1 /\ raised = "none"
    /\ wait_pc = "send_failed" /\ raised = "OSError"
         => writes = MAX_RETRY_ATTEMPTS /\ attempts = MAX_RETRY_ATTEMPTS
    /\ wait_pc = "send_failed" /\ raised = "ConnectionError" => writes = 0
    /\ wait_pc = "send_failed" => raised \in {"OSError", "ConnectionError"}

C22_Witness ==
    /\ wait_pc = "send_failed"
    /\ raised = "OSError"
    /\ writes = MAX_RETRY_ATTEMPTS


\* C23: a registration whose REGISTER was sent succeeds when the ACK arrives
\* within the wait, storing the node id and marking the client registered;
\* it fails only when no ACK arrived, with TimeoutError, and then the client
\* is unregistered.
C23_RegistrationOutcome ==
    [][/\ reg_pc' = "ok" => registered' /\ client_node_id' # "None"
       /\ wait_pc = "reg_sent" /\ reg_pc' = "failed"
            => raised' = "TimeoutError" /\ ~registered']_vars


\* the dict a sequence of entries denotes: dict equality ignores the order
AsMap(d) == {d[i] : i \in DOMAIN d}

\* C24: deserialize(serialize(m)) == m for every Message m.
C24_RoundTrip ==
    decoded # NoMessage
      => /\ decoded.type = codec_msg.type
         /\ AsMap(decoded.data) = AsMap(codec_msg.data)
         /\ decoded.sender_id = codec_msg.sender_id


\* C25: after enqueue calls in any order, dequeuing until is_empty returns
\* every enqueued event exactly once, in non-decreasing order of time.
C25_DequeueOrderedByTime ==
    is_empty /\ ~mixed
      => /\ Len(dequeued) = Len(enqueued)
         /\ {dequeued[i] : i \in DOMAIN dequeued}
              = {enqueued[i] : i \in DOMAIN enqueued}
         /\ \A i, j \in DOMAIN dequeued :
              i < j => dequeued[i][1] <= dequeued[j][1]

C25_Witness ==
    /\ is_empty
    /\ ~mixed
    /\ Len(dequeued) = MaxEvents
    /\ \E i \in 1..(MaxEvents - 1) : enqueued[i][1] > enqueued[i + 1][1]


Ended(id) ==
    /\ id \in DOMAIN item_obj
    /\ \/ id \notin active_items
       \/ item_obj[id].quantity = 0
       \/ timer_state[id] \in {"rotate", "blocked", "done"}

MidFrame(u, s) ==
    /\ pc[u] = "buy_notify"
    /\ SocketOf(item_obj[local[u].item].seller_id) = s

Committed(t) ==
    /\ pc[t] \in {"buy_ret", "buy_notify"}
    /\ local[t].ret = "True"

BuyHandlingOver(t) ==
    /\ pc[t] \in {"idle", "blocked"}
    /\ local[t].ret = "True"

C34_SaleEndEndsSale ==
    [][\A t \in Sessions :
          HandleSaleEnd(t)
          => /\ \A id \in active_items' : item_obj'[id].seller_id # client_id[t]
             /\ reply'[t] = "SALE_END"]_vars


\* get_clients_by_type (lines 568-575): the ClientInfo of the given role
get_clients_by_type(role) ==
    {clients[n] : n \in {m \in DOMAIN clients : clients[m].client_type = role}}

\* worker t is inside broadcast_to_buyers, stopped before its write loop
StoppedBeforeWrites(t) == thread_lock = t /\ pc[t] = "blocked"

InLoop(t) == client_id[t] # NoClient /\ pc[t] \notin {"new", "wait_register", "closed"}

\* try_purchase has raised or returned False to worker t
PurchaseRefused(t) == pc[t] = "buy_ret" /\ local[t].ret # "True"

\* the SALE_START of session t is refused by ItemType.from_string or start_sale
SaleStartRefused(t) ==
    \E name \in SaleNames, q \in SessionSaleQuantities :
        /\ HandleSaleStart(t, name, q)
        /\ name \notin ItemTypes \/ last'.result # "ok"

\* C36: for a registered session, a message type its role does not accept or
\* an error from the MarketManager is answered with ERROR and the worker goes
\* on to read the next message; the session ends only on a frame that cannot
\* be decoded or on a closed connection.
C36_ErrorsKeepSession ==
    [][\A t \in Sessions :
          /\ (HandleInvalidType(t) \/ SaleStartRefused(t)
              \/ (PurchaseRefused(t) /\ pc'[t] # pc[t]))
             => reply'[t] = "ERROR" /\ pc'[t] = "idle"
          /\ InLoop(t) /\ pc'[t] = "closed"
             => \/ t \in peer_closed
                \/ t \in closed_by_server
                \/ UndecodableFrame(t)]_vars

C36_Witness ==
    \E t, u \in Sessions :
        /\ Ready(t, "buyer") /\ reply[t] = "ERROR" /\ local[t].ret \notin {"none", "True"}
        /\ u \in BadFrameExits


\* C37: an unsolicited broadcast received while the caller is in
\* wait_for_response is not returned as the response: the message that
\* wait_for_response takes and returns is never a STOCK_UPDATE.
C37_BroadcastNotReturned ==
    [][wait_pc = "waiting" /\ wait_pc' = "returned"
          => last_response # "STOCK_UPDATE"]_vars

\* C38: when the receive loop reads a frame that cannot be decoded it clears
\* is_running and ends, so it reads no further frame.
C38_DecodeErrorEndsLoop ==
    [][/\ rx_pc = "recv" /\ in_flight # <<>>
       /\ Head(in_flight) = "garbled"
       /\ in_flight' = Tail(in_flight)
       => ~client_is_running' /\ rx_pc' = "exited"]_vars


\* C39: the active-connection set holds exactly the sockets of the running
\* sessions: once a session loop has exited, also that of a connection that
\* never registered, its socket is not in active_client.
C39_ExitedSocketRemoved ==
    \A t \in Sessions : pc[t] = "closed" => t \notin active_client

====
